---------------------------- MODULE Spec2Model ----------------------------
(***************************************************************************)
(* scripts/update_matches.py: the schedule scraper that turns the text of  *)
(* plk.pl/terminarz into matches.json.                                     *)
(*                                                                         *)
(* Text is modelled at character level: a Python str is a sequence of      *)
(* one-character strings, "\n" is the line break.  The two Polish letters  *)
(* the script tests for are written as the atoms "s_acute" and "c_acute"   *)
(* (each one character of the text).  The regular expressions of the       *)
(* script are operators that scan such sequences position by position,     *)
(* leftmost match first, greedy quantifiers first.                         *)
(***************************************************************************)
EXTENDS Integers, Sequences, FiniteSets, TLC

(***************************************************************************)
(* Character classes of Python's re (str patterns).                        *)
(***************************************************************************)
Digits == <<"0", "1", "2", "3", "4", "5", "6", "7", "8", "9">>

DigitSet == {Digits[i] : i \in 1..Len(Digits)}

UpperSeq == <<"A", "B", "C", "D", "E", "F", "G", "H", "I", "J", "K", "L", "M",
              "N", "O", "P", "Q", "R", "S", "T", "U", "V", "W", "X", "Y", "Z",
              "S_acute", "C_acute">>

LowerSeq == <<"a", "b", "c", "d", "e", "f", "g", "h", "i", "j", "k", "l", "m",
              "n", "o", "p", "q", "r", "s", "t", "u", "v", "w", "x", "y", "z",
              "s_acute", "c_acute">>

UpperSet == {UpperSeq[i] : i \in 1..Len(UpperSeq)}

LowerSet == {LowerSeq[i] : i \in 1..Len(LowerSeq)}

\* \s
IsSpace(c) == c \in {" ", "\n", "\t"}

\* \d
IsDigit(c) == c \in DigitSet

\* \w
IsWord(c) == c \in DigitSet \cup UpperSet \cup LowerSet \cup {"_"}

\* str.lower() on one character
LowerChar(c) ==
    IF c \in UpperSet
    THEN LowerSeq[CHOOSE i \in 1..Len(UpperSeq) : UpperSeq[i] = c]
    ELSE c

\* str.lower()
lower(s) == [i \in 1..Len(s) |-> LowerChar(s[i])]

\* int() of one decimal digit
DigitVal(c) == (CHOOSE i \in 1..Len(Digits) : Digits[i] = c) - 1

\* int() of a string of decimal digits
RECURSIVE int(_)
int(s) ==
    IF s = <<>> THEN 0
    ELSE 10 * int(SubSeq(s, 1, Len(s) - 1)) + DigitVal(s[Len(s)])

\* str() of a natural number
RECURSIVE str(_)
str(n) ==
    IF n < 10 THEN <<Digits[n + 1]>>
    ELSE str(n \div 10) \o <<Digits[(n % 10) + 1]>>

\* format(n, "0<w>d"): zero-padded to at least w digits
RECURSIVE ZeroPad(_, _)
ZeroPad(s, w) == IF Len(s) >= w THEN s ELSE ZeroPad(<<"0">> \o s, w)

\* s[:n]
Take(s, n) == SubSeq(s, 1, IF Len(s) < n THEN Len(s) ELSE n)

\* s[p-1:] for a 1-based position p
From(s, p) == SubSeq(s, p, Len(s))

\* whether the word w stands in s at position p
StartsAt(s, p, w) ==
    /\ p >= 1
    /\ p + Len(w) - 1 <= Len(s)
    /\ \A i \in 1..Len(w) : s[p + i - 1] = w[i]

\* str.startswith
startswith(s, w) == StartsAt(s, 1, w)

\* the first position >= p of s that holds no whitespace (Len(s)+1 if none): \s*
RECURSIVE SkipSpace(_, _)
SkipSpace(s, p) ==
    IF p <= Len(s) /\ IsSpace(s[p]) THEN SkipSpace(s, p + 1) ELSE p

\* the first position >= p of s that holds no digit (Len(s)+1 if none): \d+
RECURSIVE SkipDigits(_, _)
SkipDigits(s, p) ==
    IF p <= Len(s) /\ IsDigit(s[p]) THEN SkipDigits(s, p + 1) ELSE p

\* the first position >= p of s that holds a line break (Len(s)+1 if none): [^\n]*
RECURSIVE LineEnd(_, _)
LineEnd(s, p) ==
    IF p <= Len(s) /\ s[p] # "\n" THEN LineEnd(s, p + 1) ELSE p

\* Python's None, and a regular expression finding no match: the empty function.
\* Nothing the script tests against None can be an empty str or an empty dict
\* (a name is tested with "not home" first, a score dict has two keys, a TV
\* label starts with the broadcaster's name).
None == <<>>

(***************************************************************************)
(* The normalizers of the script.                                          *)
(***************************************************************************)
URL == <<"h", "t", "t", "p", "s", ":", "/", "/", "p", "l", "k", ".", "p", "l",
         "/", "t", "e", "r", "m", "i", "n", "a", "r", "z">>

TZ == <<"+", "0", "1", ":", "0", "0">>

SeasonStartMonth == 7

SeasonFirstYear == 2025

SeasonSecondYear == 2026

\* infer_year with the two season years exchanged
infer_year_swapped(month) ==
    IF month >= SeasonStartMonth THEN SeasonSecondYear ELSE SeasonFirstYear

infer_year(month) ==
    IF month >= SeasonStartMonth THEN SeasonFirstYear ELSE SeasonSecondYear

\* datetime's days of a month (calendar.monthrange)
IsLeap(y) == y % 4 = 0 /\ (y % 100 # 0 \/ y % 400 = 0)

DaysInMonth(y, m) ==
    IF m = 2 THEN (IF IsLeap(y) THEN 29 ELSE 28)
    ELSE IF m \in {4, 6, 9, 11} THEN 30 ELSE 31

\* whether datetime(y, m, d, hh, mi) is constructed (else it raises ValueError)
ValidDateTime(y, m, d, hh, mi) ==
    /\ m \in 1..12
    /\ d \in 1..DaysInMonth(y, m)
    /\ hh \in 0..23
    /\ mi \in 0..59

\* datetime.isoformat(timespec="minutes")
isoformat_minutes(y, m, d, hh, mi) ==
    ZeroPad(str(y), 4) \o <<"-">> \o ZeroPad(str(m), 2) \o <<"-">>
    \o ZeroPad(str(d), 2) \o <<"T">> \o ZeroPad(str(hh), 2) \o <<":">>
    \o ZeroPad(str(mi), 2)

\* the fields iso_start reads out of "DD.MM" and "HH:MM" (both matched by
\* \d{2}\.\d{2} and \d{2}:\d{2}, so split and int never fail)
StartFields(ddmm, hhmm) ==
    LET m == int(SubSeq(ddmm, 4, 5))
    IN  [y |-> infer_year(m), m |-> m, d |-> int(SubSeq(ddmm, 1, 2)),
         hh |-> int(SubSeq(hhmm, 1, 2)), mi |-> int(SubSeq(hhmm, 4, 5))]

\* iso_start raises ValueError
iso_start_raises(ddmm, hhmm) ==
    LET f == StartFields(ddmm, hhmm)
    IN  ~ValidDateTime(f.y, f.m, f.d, f.hh, f.mi)

iso_start(ddmm, hhmm) ==
    LET f == StartFields(ddmm, hhmm)
    IN  isoformat_minutes(f.y, f.m, f.d, f.hh, f.mi)
        \o <<":", "0", "0">> \o TZ

\* s.strip()
RECURSIVE lstrip(_)
lstrip(s) ==
    IF s # <<>> /\ IsSpace(s[1]) THEN lstrip(Tail(s)) ELSE s

RECURSIVE rstrip(_)
rstrip(s) ==
    IF s # <<>> /\ IsSpace(s[Len(s)])
    THEN rstrip(SubSeq(s, 1, Len(s) - 1))
    ELSE s

strip(s) == rstrip(lstrip(s))

\* re.sub(r"\s+", " ", s): every maximal run of whitespace becomes one space
RECURSIVE CollapseSpace(_)
CollapseSpace(s) ==
    IF s = <<>> THEN <<>>
    ELSE IF IsSpace(s[1])
         THEN <<" ">> \o CollapseSpace(From(s, SkipSpace(s, 1)))
         ELSE <<s[1]>> \o CollapseSpace(Tail(s))

clean(s) == CollapseSpace(strip(s))

IdPartLen == 14

\* re.sub(r"\W+", "", s)[:14]
safe_id_part(s) == Take(SelectSeq(s, IsWord), IdPartLen)

ScoreDigitsMax == 3

\* (\d{1,3})\s*:\s*(\d{1,3}) tried at position p with k digits in group 1:
\* the match's two groups, or None
ScoreAtWith(s, p, k) ==
    LET c == SkipSpace(s, p + k)
        b == SkipSpace(s, c + 1)
        e == SkipDigits(s, b)
        e2 == IF e - b > ScoreDigitsMax THEN b + ScoreDigitsMax ELSE e
    IN  IF /\ p + k - 1 <= Len(s)
           /\ \A i \in p..(p + k - 1) : IsDigit(s[i])
           /\ c <= Len(s) /\ s[c] = ":"
           /\ b <= Len(s) /\ IsDigit(s[b])
        THEN [home |-> int(SubSeq(s, p, p + k - 1)),
              away |-> int(SubSeq(s, b, e2 - 1))]
        ELSE None

\* the match at position p: the greedy \d{1,3} tries 3, 2, 1 digits in turn
ScoreAt(s, p) ==
    LET ks == {k \in 1..ScoreDigitsMax : ScoreAtWith(s, p, k) # None}
    IN  IF ks = {} THEN None
        ELSE ScoreAtWith(s, p, CHOOSE k \in ks : \A j \in ks : j <= k)

\* re.search from position p on: the leftmost match
RECURSIVE ScoreSearch(_, _)
ScoreSearch(s, p) ==
    IF p > Len(s) THEN None
    ELSE IF ScoreAt(s, p) # None THEN ScoreAt(s, p)
    ELSE ScoreSearch(s, p + 1)

parse_score(s) == ScoreSearch(s, 1)

(***************************************************************************)
(* The regular expressions of main().  A position is 1-based; a match's    *)
(* "start" is its first position and its "end" the position after its last *)
(* character (Python's m.start() + 1 and m.end() + 1).                     *)
(***************************************************************************)
Hashes == <<"#", "#", "#", "#">>

Kolejka == <<"k", "o", "l", "e", "j", "k", "a">>

\* ####\s*(\d+)\s*kolejka tried at position p: the match, or None
RoundAt(s, p) ==
    LET a == SkipSpace(s, p + Len(Hashes))
        e == SkipDigits(s, a)
        b == SkipSpace(s, e)
    IN  IF StartsAt(s, p, Hashes) /\ e > a /\ StartsAt(s, b, Kolejka)
        THEN [start |-> p, end |-> b + Len(Kolejka),
              round_no |-> int(SubSeq(s, a, e - 1))]
        ELSE None

\* list(re.finditer(r"####\s*(\d+)\s*kolejka", text)), from position p on
RECURSIVE RoundsFrom(_, _)
RoundsFrom(s, p) ==
    IF p > Len(s) THEN <<>>
    ELSE IF RoundAt(s, p) # None
         THEN <<RoundAt(s, p)>> \o RoundsFrom(s, RoundAt(s, p).end)
         ELSE RoundsFrom(s, p + 1)

FindRounds(s) == RoundsFrom(s, 1)

TableHeader ==
    <<"G", "o", "s", "p", "o", "d", "a", "r", "z", " ",
      "G", "o", "s_acute", "c_acute", " ",
      "D", "a", "t", "a", " ",
      "s", "p", "o", "t", "k", "a", "n", "i", "a", " ",
      "T", "V", " ",
      "W", "y", "n", "i", "k">>

\* s.replace(old, new), from position p on
RECURSIVE ReplaceFrom(_, _, _, _)
ReplaceFrom(s, p, old, new) ==
    IF p > Len(s) THEN <<>>
    ELSE IF StartsAt(s, p, old)
         THEN new \o ReplaceFrom(s, p + Len(old), old, new)
         ELSE <<s[p]>> \o ReplaceFrom(s, p + 1, old, new)

replace(s, old, new) == ReplaceFrom(s, 1, old, new)

\* the block of round idx: text[start_pos:end_pos] with the table header wiped
BlockOf(s, rounds, i) ==
    LET start_pos == rounds[i].end
        end_pos == IF i + 1 <= Len(rounds) THEN rounds[i + 1].start
                   ELSE Len(s) + 1
    IN  replace(SubSeq(s, start_pos, end_pos - 1), TableHeader, <<" ">>)

TailMax == 12

\* (?:\n[^\n]+){0,12} from position q with n repetitions left: the end of the
\* greedy match (nothing follows the group, so it never gives a line back)
RECURSIVE TailEnd(_, _, _)
TailEnd(s, q, n) ==
    IF /\ n > 0
       /\ q + 1 <= Len(s)
       /\ s[q] = "\n"
       /\ s[q + 1] # "\n"
    THEN TailEnd(s, LineEnd(s, q + 1), n - 1)
    ELSE q

\* \d{2}
TwoDigitsAt(s, p) == p + 1 <= Len(s) /\ IsDigit(s[p]) /\ IsDigit(s[p + 1])

\* (?P<ddmm>\d{2}\.\d{2})/\s*(?P<hhmm>\d{2}:\d{2}) tried at position d:
\* the position of hhmm, or 0
DateTimeAt(s, d) ==
    LET t == SkipSpace(s, d + 6)
    IN  IF /\ TwoDigitsAt(s, d)
           /\ d + 5 <= Len(s)
           /\ s[d + 2] = "."
           /\ TwoDigitsAt(s, d + 3)
           /\ s[d + 5] = "/"
           /\ TwoDigitsAt(s, t)
           /\ t + 4 <= Len(s)
           /\ s[t + 2] = ":"
           /\ TwoDigitsAt(s, t + 3)
        THEN t
        ELSE 0

\* pat tried at position p: the match with its named groups, or None.
\* [^\n]+ is greedy and a line break must follow it, so home runs from p to
\* the end of p's line and away is the whole next line.
PatAt(s, p) ==
    LET e1 == LineEnd(s, p)
        e2 == LineEnd(s, e1 + 1)
        d == e2 + 1
        t == DateTimeAt(s, d)
        q == TailEnd(s, t + 5, TailMax)
    IN  IF /\ e1 > p /\ e1 <= Len(s)
           /\ e2 > e1 + 1 /\ e2 <= Len(s)
           /\ t # 0
        THEN [home |-> SubSeq(s, p, e1 - 1),
              away |-> SubSeq(s, e1 + 1, e2 - 1),
              ddmm |-> SubSeq(s, d, d + 4),
              hhmm |-> SubSeq(s, t, t + 4),
              tail |-> SubSeq(s, t + 5, q - 1),
              start |-> p, end |-> q]
        ELSE None

\* the next match of pat.finditer(block) at or after position p, or None
RECURSIVE PatSearch(_, _)
PatSearch(s, p) ==
    IF p > Len(s) THEN None
    ELSE IF PatAt(s, p) # None THEN PatAt(s, p)
    ELSE PatSearch(s, p + 1)

\* whether the lower-case word w stands in s at position p, case ignored
StartsAtIgnoreCase(s, p, w) ==
    /\ p + Len(w) - 1 <= Len(s)
    /\ \A i \in 1..Len(w) : LowerChar(s[p + i - 1]) = w[i]

Broadcasters ==
    {<<"p", "o", "l", "s", "a", "t">>,
     <<"y", "o", "u", "t", "u", "b", "e">>,
     <<"e", "m", "o", "c", "j", "e">>}

\* re.search(r"(Polsat[^\n]*|YouTube[^\n]*|Emocje[^\n]*)", tail, re.IGNORECASE),
\* from position p on: group 1 of the leftmost match, or None
RECURSIVE TvSearch(_, _)
TvSearch(s, p) ==
    IF p > Len(s) THEN None
    ELSE IF \E w \in Broadcasters : StartsAtIgnoreCase(s, p, w)
         THEN SubSeq(s, p, LineEnd(s, p) - 1)
         ELSE TvSearch(s, p + 1)

\* the header labels a home name is tested against
HeaderLabels ==
    {<<"g", "o", "s", "p", "o", "d", "a", "r", "z">>,
     <<"g", "o", "s_acute", "c_acute">>,
     <<"g", "o", "s", "c">>}

\* the two "continue" tests of the loop body
IsJunk(home, away) ==
    \/ home = <<>>
    \/ away = <<>>
    \/ \E w \in HeaderLabels : startswith(lower(home), w)

\* status_of with its two outcomes exchanged
status_of_inverted(score) == IF score # None THEN "scheduled" ELSE "played"

status_of(score) == IF score # None THEN "played" ELSE "scheduled"

\* winner_of with the comparison turned round
winner_of_reversed(home, away, score) ==
    IF score # None
    THEN (IF score.home < score.away THEN home ELSE away)
    ELSE None

winner_of(home, away, score) ==
    IF score # None
    THEN (IF score.home > score.away THEN home ELSE away)
    ELSE None

match_id(round_no, ddmm, home, away) ==
    ZeroPad(str(round_no), 2) \o <<"-">>
    \o replace(ddmm, <<".">>, <<>>) \o <<"-">>
    \o safe_id_part(home) \o <<"-">> \o safe_id_part(away)

\* the dict main() appends for the match mm of pat in the block of round_no
Fixture(round_no, mm) ==
    LET home == clean(mm.home)
        away == clean(mm.away)
        tv_m == TvSearch(mm.tail, 1)
        score == parse_score(mm.tail)
    IN  [id |-> match_id(round_no, mm.ddmm, home, away),
         round |-> round_no,
         home |-> home,
         away |-> away,
         start |-> iso_start(mm.ddmm, mm.hhmm),
         tv |-> IF tv_m # None THEN clean(tv_m) ELSE None,
         status |-> status_of(score),
         score |-> score,
         winner |-> winner_of(home, away, score)]

\* datetime.isoformat(timespec="seconds")
isoformat_seconds(t) ==
    isoformat_minutes(t.y, t.m, t.d, t.hh, t.mi) \o <<":">>
    \o ZeroPad(str(t.ss), 2)

Payload(ms, now) ==
    [meta |-> [source |-> URL,
               updated_at |-> isoformat_seconds(now) \o <<"Z">>,
               count |-> Len(ms)],
     matches |-> ms]

(***************************************************************************)
(* The pages the run is checked on.  soup.get_text("\n", strip=True) gives *)
(* stripped, non-empty lines joined by "\n".  A page is an optional round  *)
(* heading, then up to two fixtures (home line, away line, date/time line, *)
(* optional TV line, optional score line) with, between them, nothing, a   *)
(* round heading, or TailMax lines of other text.                          *)
(***************************************************************************)
MaxRound == 2

TeamA ==
    <<"T", "e", "a", "m", " ", "A">>

TeamA2 ==
    <<"T", "e", "a", "m", "A">>

TeamB ==
    <<"T", "e", "a", "m", " ", "B">>

Gospodarz ==
    <<"G", "o", "s", "p", "o", "d", "a", "r", "z">>

Gosc ==
    <<"G", "o", "s_acute", "c_acute">>

DecemberDate ==
    <<"2", "3", ".", "1", "2", "/", " ", "1", "7", ":", "3", "0">>

MarchDate ==
    <<"0", "5", ".", "0", "3", "/", " ", "1", "8", ":", "0", "0">>

NoSuchDate ==
    <<"3", "1", ".", "0", "2", "/", " ", "1", "7", ":", "3", "0">>

PolsatSport ==
    <<"P", "o", "l", "s", "a", "t", " ", "S", "p", "o", "r", "t">>

HomeWin ==
    <<"8", "5", ":", "7", "9">>

Tie ==
    <<"8", "0", ":", "8", "0">>

AwayWin ==
    <<"7", "0", ":", "9", "0">>

OtherLine ==
    <<"-">>

RoundHeading(r) == Hashes \o <<" ">> \o str(r) \o <<" ">> \o Kolejka

\* a fixture as the page shows it; tv and score are <<>> when the page has no
\* such line
PlainGroup ==
    [home |-> TeamA, away |-> TeamB, date |-> DecemberDate, tv |-> <<>>,
     score |-> <<>>]

Groups ==
    {PlainGroup}
    \cup {[PlainGroup EXCEPT !.home = h] : h \in {TeamA2, Gospodarz}}
    \cup {[PlainGroup EXCEPT !.away = a] : a \in {Gosc, TableHeader}}
    \cup {[PlainGroup EXCEPT !.date = d] : d \in {MarchDate, NoSuchDate}}
    \cup {[PlainGroup EXCEPT !.tv = PolsatSport, !.score = s] :
            s \in {<<>>, HomeWin, Tie, AwayWin}}
    \cup {[PlainGroup EXCEPT !.date = MarchDate, !.score = s] :
            s \in {HomeWin, Tie, AwayWin}}
    \cup {[PlainGroup EXCEPT !.score = s] : s \in {HomeWin, Tie, AwayWin}}

GroupLines(g) ==
    <<g.home, g.away, g.date>>
    \o (IF g.tv = <<>> THEN <<>> ELSE <<g.tv>>)
    \o (IF g.score = <<>> THEN <<>> ELSE <<g.score>>)

Headings == {<<>>} \cup {<<RoundHeading(r)>> : r \in 1..MaxRound}

Separators == Headings \cup {[i \in 1..TailMax |-> OtherLine]}

GroupChoices == {<<>>} \cup {GroupLines(g) : g \in Groups}

\* "\n".join(lines)
RECURSIVE Join(_)
Join(lines) ==
    IF lines = <<>> THEN <<>>
    ELSE IF Len(lines) = 1 THEN lines[1]
    ELSE lines[1] \o <<"\n">> \o Join(Tail(lines))

Pages ==
    {Join(h \o g1 \o sep \o g2) :
        h \in Headings, g1 \in GroupChoices, sep \in Separators,
        g2 \in GroupChoices}

\* the readings of datetime.utcnow() the run may get
Clock ==
    {[y |-> 2025, m |-> 12, d |-> 24, hh |-> 6, mi |-> 0, ss |-> 5],
     [y |-> 2026, m |-> 3, d |-> 6, hh |-> 18, mi |-> 30, ss |-> 59]}

(***************************************************************************)
(* main(): the state is its local variables, the exception that ended it   *)
(* and the output file.                                                    *)
(***************************************************************************)
VARIABLES
    pc,          \* where main() stands
    text,        \* soup.get_text("\n", strip=True)
    round_iter,  \* the matches of the round heading
    idx,         \* the index of the round being read (1-based)
    block,       \* its block of text
    pos,         \* where pat.finditer(block) goes on from
    matches,     \* the fixtures appended so far
    tails,       \* of each appended fixture: idx and the tail group of its match
    error,       \* the exception main() ended with, or None
    file         \* what matches.json holds, or None while it was never opened

vars == <<pc, text, round_iter, idx, block, pos, matches, tails, error, file>>

Init ==
    /\ pc = "start"
    /\ text \in Pages
    /\ round_iter = <<>>
    /\ idx = 0
    /\ block = <<>>
    /\ pos = 0
    /\ matches = <<>>
    /\ tails = <<>>
    /\ error = None
    /\ file = None

\* lines 55-57: no round heading, RuntimeError
RaiseNoRounds ==
    /\ pc = "start"
    /\ FindRounds(text) = <<>>
    /\ pc' = "raised"
    /\ error' = "RuntimeError"
    /\ UNCHANGED <<text, round_iter, idx, block, pos, matches, tails, file>>

\* lines 55-61: the round headings found, the loop over them starts
LocateRounds ==
    /\ pc = "start"
    /\ FindRounds(text) # <<>>
    /\ round_iter' = FindRounds(text)
    /\ matches' = <<>>
    /\ idx' = 1
    /\ pc' = "for_round"
    /\ UNCHANGED <<text, block, pos, tails, error, file>>

\* lines 61-78: the next round's block is cut and pat.finditer starts on it
EnterRound ==
    /\ pc = "for_round"
    /\ idx <= Len(round_iter)
    /\ block' = BlockOf(text, round_iter, idx)
    /\ pos' = 1
    /\ pc' = "for_match"
    /\ UNCHANGED <<text, round_iter, idx, matches, tails, error, file>>

\* lines 78-89: the next match of pat is junk, "continue"
SkipCandidate ==
    /\ pc = "for_match"
    /\ LET mm == PatSearch(block, pos)
       IN  /\ mm # None
           /\ IsJunk(clean(mm.home), clean(mm.away))
           /\ pos' = mm.end
    /\ UNCHANGED <<pc, text, round_iter, idx, block, matches, tails, error, file>>

\* lines 78-91: iso_start raises ValueError, which nothing catches
RaiseValueError ==
    /\ pc = "for_match"
    /\ LET mm == PatSearch(block, pos)
       IN  /\ mm # None
           /\ ~IsJunk(clean(mm.home), clean(mm.away))
           /\ iso_start_raises(mm.ddmm, mm.hhmm)
           /\ pos' = mm.end
    /\ pc' = "raised"
    /\ error' = "ValueError"
    /\ UNCHANGED <<text, round_iter, idx, block, matches, tails, file>>

\* lines 78-117: the next match of pat becomes a fixture
AppendMatch ==
    /\ pc = "for_match"
    /\ LET mm == PatSearch(block, pos)
       IN  /\ mm # None
           /\ ~IsJunk(clean(mm.home), clean(mm.away))
           /\ ~iso_start_raises(mm.ddmm, mm.hhmm)
           /\ matches' = Append(matches, Fixture(round_iter[idx].round_no, mm))
           /\ tails' = Append(tails, [idx |-> idx, tail |-> mm.tail])
           /\ pos' = mm.end
    /\ UNCHANGED <<pc, text, round_iter, idx, block, error, file>>

\* line 78: pat finds no further match in the block, on to the next round
ExitRound ==
    /\ pc = "for_match"
    /\ PatSearch(block, pos) = None
    /\ idx' = idx + 1
    /\ pc' = "for_round"
    /\ UNCHANGED <<text, round_iter, block, pos, matches, tails, error, file>>

\* WriteSnapshot that writes the file only when a fixture was found
WriteSnapshot_if_matches ==
    /\ pc = "for_round"
    /\ idx > Len(round_iter)
    /\ \E now \in Clock :
          file' = IF matches # <<>> THEN Payload(matches, now) ELSE None
    /\ pc' = "done"
    /\ UNCHANGED <<text, round_iter, idx, block, pos, matches, tails, error>>

\* lines 119-129: every round read, the payload is written to matches.json
WriteSnapshot ==
    /\ pc = "for_round"
    /\ idx > Len(round_iter)
    /\ \E now \in Clock : file' = Payload(matches, now)
    /\ pc' = "done"
    /\ UNCHANGED <<text, round_iter, idx, block, pos, matches, tails, error>>

Next ==
    \/ RaiseNoRounds
    \/ LocateRounds
    \/ EnterRound
    \/ SkipCandidate
    \/ RaiseValueError
    \/ AppendMatch
    \/ ExitRound
    \/ WriteSnapshot

Spec == Init /\ [][Next]_vars

(***************************************************************************)
(* What the claims speak of: the lines of a piece of text, date/time       *)
(* tokens, score tokens and name lines as the page shows them.             *)
(***************************************************************************)
\* s.split("\n")
RECURSIVE Split(_)
Split(s) ==
    LET e == LineEnd(s, 1)
    IN  IF e > Len(s) THEN <<s>>
        ELSE <<SubSeq(s, 1, e - 1)>> \o Split(From(s, e + 1))

\* the line starts with a date/time token DD.MM/ HH:MM
IsDateTimeLine(l) == DateTimeAt(l, 1) # 0

\* the line holds a score token
IsScoreLine(l) == parse_score(l) # None

HasHeaderLabel(name) == \E w \in HeaderLabels : startswith(lower(name), w)

\* a non-empty name that is no header label
IsNameLine(l) == clean(l) # <<>> /\ ~HasHeaderLabel(clean(l))

\* the date/time tokens of a segment that two name lines precede
FixtureTokens(seg) ==
    LET ls == Split(seg)
    IN  {i \in 3..Len(ls) :
            /\ IsDateTimeLine(ls[i])
            /\ IsNameLine(ls[i - 1])
            /\ IsNameLine(ls[i - 2])}

\* the fixtures appended while reading round k whose names are name lines
FixturesOf(k) ==
    {i \in 1..Len(matches) :
        /\ tails[i].idx = k
        /\ IsNameLine(matches[i].home)
        /\ IsNameLine(matches[i].away)}

\* the lines that follow a fixture's date/time line
TailLines(tail) == IF tail = <<>> THEN <<>> ELSE Split(From(tail, 2))

\* of those, the lines before the next fixture's home, away and date/time line
OwnLines(tail) ==
    LET ls == TailLines(tail)
        next == {k \in 1..Len(ls) :
                    \E j \in k..(k + 2) : j <= Len(ls) /\ IsDateTimeLine(ls[j])}
        stop == IF next = {} THEN Len(ls) + 1
                ELSE CHOOSE k \in next : \A j \in next : k <= j
    IN  SubSeq(ls, 1, stop - 1)

\* the year, the month and the MM-DD part of a start timestamp
StartYear(f) == int(SubSeq(f.start, 1, 4))

StartMonth(f) == int(SubSeq(f.start, 6, 7))

StartDate(f) == SubSeq(f.start, 6, 10)

(***************************************************************************)
(* The claims.                                                             *)
(***************************************************************************)

\* C1: every fixture in the matches list has status "played" exactly when its
\* score is non-null and status "scheduled" exactly when its score is null.
C1_StatusIffScore ==
    \A i \in 1..Len(matches) :
        /\ matches[i].status = "played" <=> matches[i].score # None
        /\ matches[i].status = "scheduled" <=> matches[i].score = None

\* C1 witness: a written snapshot holding a played and a scheduled fixture.
C1_Witness ==
    /\ pc = "done"
    /\ \E i, j \in 1..Len(matches) :
          /\ matches[i].score # None /\ matches[i].status = "played"
          /\ matches[j].score = None /\ matches[j].status = "scheduled"

\* C2: a fixture whose score is a tie, or that has no score, has no winner.
C2_TieHasNoWinner ==
    \A i \in 1..Len(matches) :
        LET f == matches[i]
        IN  /\ f.score = None => f.winner = None
            /\ (f.score # None /\ f.score.home = f.score.away)
                  => f.winner = None

\* C3: a fixture whose score is present and not a tie has its home name as
\* winner if the home score is the greater, its away name otherwise.
C3_WinnerOfDecidedGame ==
    \A i \in 1..Len(matches) :
        LET f == matches[i]
        IN  (f.score # None /\ f.score.home # f.score.away)
               => f.winner = IF f.score.home > f.score.away THEN f.home
                             ELSE f.away

\* C3 witness: a written snapshot with a home win and an away win.
C3_Witness ==
    /\ pc = "done"
    /\ \E i, j \in 1..Len(matches) :
          /\ matches[i].score # None
          /\ matches[i].score.home > matches[i].score.away
          /\ matches[i].winner = matches[i].home
          /\ matches[j].score # None
          /\ matches[j].score.home < matches[j].score.away
          /\ matches[j].winner = matches[j].away

\* C4: once the run has written its snapshot, every round's segment has given
\* as many fixtures with two names as it has date/time tokens preceded by two
\* name lines: each such token has given exactly one fixture.
C4_OneFixturePerToken ==
    pc = "done" =>
        \A k \in 1..Len(round_iter) :
            Cardinality(FixturesOf(k))
               = Cardinality(FixtureTokens(BlockOf(text, round_iter, k)))

\* C5: two fixtures of one snapshot that differ in round, date or a name have
\* different ids.
C5_DistinctIds ==
    \A i, j \in 1..Len(matches) :
        (\/ matches[i].round # matches[j].round
         \/ StartDate(matches[i]) # StartDate(matches[j])
         \/ matches[i].home # matches[j].home
         \/ matches[i].away # matches[j].away)
           => matches[i].id # matches[j].id

\* C6: with no round heading the run ends in the no-rounds error and
\* matches.json is never opened; with a round heading, once every round is
\* read the snapshot can be written, and a run that is done has written the
\* fixtures found, however few.
C6_NoRoundsNoFile ==
    /\ FindRounds(text) = <<>>
          => /\ file = None
             /\ pc \in {"start", "raised"}
             /\ pc = "raised" => error = "RuntimeError"
    /\ error = "RuntimeError" => FindRounds(text) = <<>> /\ file = None
    /\ (pc = "for_round" /\ idx > Len(round_iter)) => ENABLED WriteSnapshot
    /\ pc = "done"
          => /\ FindRounds(text) # <<>>
             /\ file # None
             /\ file.matches = matches
             /\ file.meta.count = Len(matches)
    /\ file # None => pc = "done"

\* C6 witness: a page with fixture lines but no round heading, ended by the
\* no-rounds error with no file.
C6_Witness ==
    /\ pc = "raised"
    /\ error = "RuntimeError"
    /\ file = None
    /\ PatSearch(text, 1) # None

\* C7: a date/time token that is no real date or time never aborts the run.
C7_BadDateSkipped == error # "ValueError"

\* C8: no emitted fixture has a home or away name that is empty or begins
\* with a header label.
C8_NoHeaderNames ==
    \A i \in 1..Len(matches) :
        /\ IsNameLine(matches[i].home)
        /\ IsNameLine(matches[i].away)

\* C9: infer_year gives 2025 for the months 7..12 and 2026 for the months
\* 1..6, and the year of every emitted fixture's start is the one of its month.
C9_SeasonYear ==
    /\ \A m \in 7..12 : infer_year(m) = 2025
    /\ \A m \in 1..6 : infer_year(m) = 2026
    /\ \A i \in 1..Len(matches) :
          LET f == matches[i]
              w == Len(ZeroPad(str(f.round), 2))
              month == int(SubSeq(f.id, w + 4, w + 5))
          IN  /\ StartMonth(f) = month
              /\ month \in 7..12 => StartYear(f) = 2025
              /\ month \in 1..6 => StartYear(f) = 2026

\* C9 witness: a written snapshot with a December and a March fixture.
C9_Witness ==
    /\ pc = "done"
    /\ \E i, j \in 1..Len(matches) :
          /\ StartMonth(matches[i]) = 12 /\ StartYear(matches[i]) = 2025
          /\ StartMonth(matches[j]) = 3 /\ StartYear(matches[j]) = 2026

\* C10: a fixture none of whose own lines (those after its date/time line and
\* before the next fixture's lines) is a score token has no score, status
\* "scheduled" and no winner.
C10_ScoreFromOwnLines ==
    \A i \in 1..Len(matches) :
        LET own == OwnLines(tails[i].tail)
        IN  (\A n \in 1..Len(own) : ~IsScoreLine(own[n]))
               => /\ matches[i].score = None
                  /\ matches[i].status = "scheduled"
                  /\ matches[i].winner = None

=============================================================================
